---- MODULE Spec2Model ----
(***************************************************************************)
(* A model of marmots: the effective-area event loop                       *)
(* (src/marmots/effective_area.py, calculate) and the TAUOLA decay sampler *)
(* (src/marmots/tauola.py).                                                *)
(*                                                                         *)
(* Numbers.  Real quantities are exact rationals [n |-> num, d |-> den],   *)
(* den > 0, kept in lowest terms.  Angles are whole degrees.  A per-trial  *)
(* array whose values do not matter to the control flow (decay length,     *)
(* shower energy, ...) is the sequence of the trial numbers its elements   *)
(* belong to, so that a boolean-mask selection a[in_sight] is visible as   *)
(* a shorter sequence of trial numbers.                                    *)
(***************************************************************************)
EXTENDS Integers, Sequences, FiniteSets, TLC

VARIABLES
    pc,         \* position inside calculate
    N,          \* argument N: [kind |-> "int" | "array", v |-> <<...>>]
    nst,        \* number of stations (length of lat/lon/altitude)
    Ag,         \* what geometry.geometric_area returned
    Pexit,      \* masked array returned by tauexit
    calls,      \* the collaborators called so far
    Ptrig,      \* the (n_stations x trials) trigger matrix
    evaluated,  \* stations whose loop iteration has run
    loc,        \* the locals of the last loop iteration
    vargs,      \* the per-trial arguments of the last voltage(...) call
    seen,       \* trials that were in sight of some evaluated station
    allAbove,   \* every SNR computed so far exceeded trigger_SNR
    world,      \* per-station collaborator answers fixed in advance (SpecOrder)
    ret,        \* what calculate returned
    decays,     \* the TAUOLA reference table (rows of hadron/electron fraction)
    tpc,        \* last sampler operation
    stypes,     \* last result of sample_shower_type
    fractions,  \* last result of sample_energy_fraction
    tin,        \* the argument of the last sampler call
    tu          \* the uniform draws of the last sampler call

calcvars == <<pc, N, nst, Ag, Pexit, calls, Ptrig, evaluated, loc, vargs,
              seen, allAbove, world, ret>>
tauvars == <<decays, tpc, stypes, fractions, tin, tu>>
vars == <<calcvars, tauvars>>

----------------------------------------------------------------------------
(* Bounds of the model *)

MaxTrials == 2

MaxStations == 2

MaxRows == 3

MaxCount == 2

----------------------------------------------------------------------------
(* Exact rational arithmetic *)

RECURSIVE GCD(_, _)
GCD(a, b) == IF b = 0 THEN a ELSE GCD(b, a % b)

Abs(x) == IF x < 0 THEN -x ELSE x

Rat(n, d) ==
    LET g == GCD(Abs(n), d)
    IN  [n |-> n \div g, d |-> d \div g]

RInt(i) == [n |-> i, d |-> 1]

RAdd(a, b) == Rat(a.n * b.d + b.n * a.d, a.d * b.d)

RMul(a, b) == Rat(a.n * b.n, a.d * b.d)

RDivInt(a, i) == Rat(a.n, a.d * i)

RSub(a, b) == Rat(a.n * b.d - b.n * a.d, a.d * b.d)

RLe(a, b) == a.n * b.d <= b.n * a.d

RLt(a, b) == a.n * b.d < b.n * a.d

(* the integer part of a non-negative rational *)
RFloor(a) == a.n \div a.d

RECURSIVE RSum(_)
RSum(s) == IF s = <<>> THEN RInt(0) ELSE RAdd(Head(s), RSum(Tail(s)))

RECURSIVE Indices(_, _)
(* the trial numbers selected by a boolean mask, in order: a[mask] *)
Indices(mask, k) ==
    IF k > Len(mask) THEN <<>>
    ELSE IF mask[k] THEN <<k>> \o Indices(mask, k + 1)
    ELSE Indices(mask, k + 1)

Range(s) == {s[j] : j \in 1..Len(s)}

----------------------------------------------------------------------------
(* Defaults of calculate's keyword arguments, in whole degrees / SNR units *)

maxview == 3

trigger_SNR == 5

----------------------------------------------------------------------------
(* Input domains.  The geometry, exit-probability and voltage collaborators *)
(* are outside the core; what they return is drawn from these sets.        *)

(* One station's view of one trial: ground view angle, distance to the     *)
(* decay point, station-frame zenith theta, and the SNR that the voltage   *)
(* model and the noise floor produce for it.                               *)
Geo(gv, dist, theta, snr) == [gv |-> gv, dist |-> dist, theta |-> theta, snr |-> snr]

OutOfView == Geo(maxview + 1, 0, 0, 0)

(* in sight with the ground view on the boundary maxview; the decay point  *)
(* within the horizon distance and above the horizon angle (plainly        *)
(* visible), beyond the horizon distance and below the horizon angle, or   *)
(* at the zenith (elevation 90)                                            *)
VisibleLow == Geo(maxview, 2, 91, trigger_SNR)

VisibleHigh == Geo(maxview, 2, 91, trigger_SNR + 1)

BehindHorizonHigh == Geo(maxview, 3, 92, trigger_SNR + 1)

ZenithHigh == Geo(maxview, 2, 0, trigger_SNR + 1)

GeoTrig == {OutOfView, VisibleLow, VisibleHigh, BehindHorizonHigh, ZenithHigh}

GeoAgg == {OutOfView, VisibleHigh}

GeoOrder == {OutOfView, VisibleLow, VisibleHigh}

(* geometry.distance_to_horizon and geometry.horizon_angle at the          *)
(* station's altitude                                                      *)
HorizonDistances == {2}

HorizonAngles == {-1}

(* an entry of the masked exit-probability array: value and mask *)
PexitEntry(v, m) == [v |-> v, m |-> m]

PexitTrig == {PexitEntry(RInt(1), FALSE)}

PexitAgg == {PexitEntry(RInt(0), TRUE), PexitEntry(Rat(1, 2), FALSE), PexitEntry(RInt(1), FALSE)}

(* the dot weights of a batch of n trials *)
DotTrig == [n \in 0..MaxTrials |-> {[k \in 1..n |-> k]}]

DotAgg == [n \in 0..MaxTrials |-> {[k \in 1..n |-> 1], [k \in 1..n |-> k]}]

AreaValues == {3}

NInt(v) == [kind |-> "int", v |-> <<v>>]

NArray(v) == [kind |-> "array", v |-> v]

(* the values of N for m stations *)
NTrig == [m \in 1..MaxStations |-> {NInt(2)}]

NAgg ==
    [m \in 1..MaxStations |->
        {NInt(2), NArray([j \in 1..m |-> 2]), NArray([j \in 1..m |-> j])}]

NoWorld == [n \in 0..MaxTrials, m \in 1..MaxStations |-> {<<>>}]

(* the answers for every station and trial, with at most one in-sight      *)
(* trial whose SNR sits on the threshold                                   *)
Worlds ==
    [n \in 0..MaxTrials, m \in 1..MaxStations |->
        {w \in [1..m -> [1..n -> GeoOrder]] :
            Cardinality({p \in (1..m) \X (1..n) : w[p[1]][p[2]] = VisibleLow}) <= 1}]

----------------------------------------------------------------------------
(* calculate *)

NoLoc == [s |-> 0, in_sight |-> <<>>, idx |-> <<>>, dist |-> <<>>, theta |-> <<>>,
          snr |-> <<>>, hd |-> 0, ha |-> 0]

NoRet == [kind |-> "none", v |-> <<>>]

TauolaIdle ==
    /\ decays = <<>>
    /\ tpc = "idle"
    /\ stypes = <<>>
    /\ fractions = <<>>
    /\ tin = <<>>
    /\ tu = <<>>

InitOn(NDom) ==
    /\ pc = "start"
    /\ nst \in 1..MaxStations
    /\ N \in NDom[nst]
    /\ Ag = [n |-> 0, dot |-> <<>>, area |-> 0]
    /\ Pexit = <<>>
    /\ calls = {}
    /\ Ptrig = <<>>
    /\ evaluated = {}
    /\ loc = NoLoc
    /\ vargs = <<>>
    /\ seen = {}
    /\ allAbove = TRUE
    /\ world = <<>>
    /\ ret = NoRet
    /\ TauolaIdle

(* Ag = geometry.geometric_area(...) *)
GeometricAreaOn(DotDom, WorldDom) ==
    /\ pc = "start"
    /\ \E n \in 0..MaxTrials, area \in AreaValues :
         \E dot \in DotDom[n], w \in WorldDom[n, nst] :
            /\ Ag' = [n |-> n, dot |-> dot, area |-> area]
            /\ world' = w
    /\ calls' = calls \cup {"geometric_area"}
    /\ pc' = "batch"
    /\ UNCHANGED <<N, nst, Pexit, Ptrig, evaluated, loc, vargs, seen, allAbove, ret>>
    /\ UNCHANGED tauvars

Scalar(r) == [shape |-> "scalar", x |-> <<r>>]

MaskedScalar == [shape |-> "masked", x |-> <<RInt(0)>>]

ArrayOf(s) == [shape |-> "array", x |-> s]

(* np.array([geometric, pexit, pdet, effective_area]).  Scalars give a     *)
(* float vector; a 0-d masked constant is copied by its data, 0.0.  If an  *)
(* element is itself an array the list is ragged: NumPy >= 1.24 raises     *)
(* ValueError, older releases build an object array of the four elements.  *)
Pack(elems) ==
    IF \E j \in 1..Len(elems) : elems[j].shape = "array"
    THEN {[kind |-> "raised", v |-> <<>>], [kind |-> "vector", v |-> elems]}
    ELSE {[kind |-> "vector",
           v |-> [j \in 1..Len(elems) |->
                    IF elems[j].shape = "masked" THEN Scalar(RInt(0)) ELSE elems[j]]]}

(* EmptyBatch with the size test placed after the exit lookup *)
EmptyBatchAfterLookup ==
    /\ pc = "batch"
    /\ Ag.n = 0
    /\ calls' = calls \cup {"tauexit"}
    /\ ret' \in Pack(<<Scalar(RInt(0)), Scalar(RInt(0)), Scalar(RInt(0)), Scalar(RInt(0))>>)
    /\ pc' = "done"
    /\ UNCHANGED <<N, nst, Ag, Pexit, Ptrig, evaluated, loc, vargs, seen,
                   allAbove, world>>
    /\ UNCHANGED tauvars

(* if Ag.emergence.size == 0: all four coefficients are 0 *)
EmptyBatch ==
    /\ pc = "batch"
    /\ Ag.n = 0
    /\ ret' \in Pack(<<Scalar(RInt(0)), Scalar(RInt(0)), Scalar(RInt(0)), Scalar(RInt(0))>>)
    /\ pc' = "done"
    /\ UNCHANGED <<N, nst, Ag, Pexit, calls, Ptrig, evaluated, loc, vargs, seen,
                   allAbove, world>>
    /\ UNCHANGED tauvars

(* the else branch up to the station loop: exit lookup, decay sampling,    *)
(* decay geometry, noise floor, Ptrig = zeros, ground view                 *)
LookupOn(PexDom) ==
    /\ pc = "batch"
    /\ Ag.n > 0
    /\ Pexit' \in [1..Ag.n -> PexDom]
    /\ calls' = calls \cup {"tauexit", "sample_range", "sample_shower_energies",
                            "cartesian_to_spherical", "decay_zenith_azimuth",
                            "Vrms", "view_angle"}
    /\ Ptrig' = [s \in 1..nst |-> [k \in 1..Ag.n |-> 0]]
    /\ pc' = "loop"
    /\ UNCHANGED <<N, nst, Ag, evaluated, loc, vargs, seen, allAbove, world, ret>>
    /\ UNCHANGED tauvars

(* a per-trial array over the whole batch, and its restriction a[mask] *)
FullArray == [k \in 1..Ag.n |-> k]

Restrict(a, idx) == [j \in 1..Len(idx) |-> a[idx[j]]]

(* the per-trial arguments of voltage(...), lines 135-152 *)
VoltageArgs(idx) ==
    [decay_view         |-> idx,
     exit_zenith        |-> FullArray,
     decay_altitude     |-> Restrict(FullArray, idx),
     decay_length       |-> Restrict(FullArray, idx),
     decay_zenith       |-> Restrict(FullArray, idx),
     decay_azimuth      |-> Restrict(FullArray, idx),
     distance_to_decay  |-> idx,
     dbeacon            |-> Restrict(FullArray, idx),
     Eshower            |-> Restrict(FullArray, idx),
     theta              |-> idx,
     phi_from_boresight |-> idx]

(* AssignTrigger on a matrix allocated afresh inside the loop: the rows of *)
(* the stations evaluated earlier are lost                                *)
AssignTriggerFresh(P, s, idx, snr) ==
    [t \in 1..Len(P) |->
        [k \in 1..Len(P[s]) |->
            IF t = s /\ \E j \in 1..Len(idx) : idx[j] = k /\ snr[j] > trigger_SNR
            THEN 1 ELSE 0]]

(* Ptrig[i][in_sight] = SNR > trigger_SNR: an assignment through the row   *)
(* view Ptrig[i], it writes the in-sight entries of row i                  *)
AssignTrigger(P, s, idx, snr) ==
    [P EXCEPT ![s] =
        [k \in 1..Len(P[s]) |->
            IF \E j \in 1..Len(idx) : idx[j] = k
            THEN LET j == CHOOSE j \in 1..Len(idx) : idx[j] = k
                 IN  IF snr[j] > trigger_SNR THEN 1 ELSE 0
            ELSE P[s][k]]]

(* Ptrig[i][in_sight][mask] = 0.0: Ptrig[i][in_sight] indexes with a       *)
(* boolean array, which NumPy evaluates to a new array (a copy); the       *)
(* assignment [mask] = 0.0 writes into that temporary, which is then       *)
(* dropped.  Ptrig itself is left as it was.                               *)
ChainedMaskAssign(P, s, idx, mask) ==
    LET tmp      == [j \in 1..Len(idx) |-> P[s][idx[j]]]
        tmpAfter == [j \in 1..Len(idx) |-> IF mask[j] THEN 0 ELSE tmp[j]]
    IN  P

(* elev = pi/2 - theta, in degrees *)
Elev(theta) == 90 - theta

(* invisible = beyond and below, lines 170-178 *)
Invisible(l) ==
    [j \in 1..Len(l.idx) |->
        /\ l.dist[j] > l.hd
        /\ Elev(l.theta[j]) < l.ha]

(* elev > 0.0, line 186 *)
AboveHorizontal(l) == [j \in 1..Len(l.idx) |-> Elev(l.theta[j]) > 0]

(* one iteration of the station loop, lines 120-186, for station s with    *)
(* the collaborators' answers for that station given by row                *)
StationBody(s, row) ==
    LET in_sight == [k \in 1..Ag.n |-> row[k].gv <= maxview]
        idx      == Indices(in_sight, 1)
    IN  \E hd \in HorizonDistances, ha \in HorizonAngles :
          LET l  == [s |-> s, in_sight |-> in_sight, idx |-> idx,
                     dist  |-> [j \in 1..Len(idx) |-> row[idx[j]].dist],
                     theta |-> [j \in 1..Len(idx) |-> row[idx[j]].theta],
                     snr   |-> [j \in 1..Len(idx) |-> row[idx[j]].snr],
                     hd |-> hd, ha |-> ha]
              P1 == AssignTrigger(Ptrig, s, idx, l.snr)
              P2 == ChainedMaskAssign(P1, s, idx, Invisible(l))
              P3 == ChainedMaskAssign(P2, s, idx, AboveHorizontal(l))
          IN  /\ loc' = l
              /\ vargs' = VoltageArgs(idx)
              /\ Ptrig' = P3
              /\ seen' = seen \cup Range(idx)
              /\ allAbove' = (allAbove /\ \A j \in 1..Len(idx) : l.snr[j] > trigger_SNR)

StationIter(s, Rows) ==
    /\ pc = "loop"
    /\ s \in (1..nst) \ evaluated
    /\ \E row \in Rows : StationBody(s, row)
    /\ calls' = calls \cup {"decay_view", "obs_zenith_azimuth", "voltage",
                            "distance_to_horizon", "horizon_angle"}
    /\ evaluated' = evaluated \cup {s}
    /\ UNCHANGED <<pc, N, nst, Ag, Pexit, world, ret>>
    /\ UNCHANGED tauvars

(* for i in range(n_stations): the next station in index order *)
NextStation == Cardinality(evaluated) + 1

RECURSIVE SumInt(_)
SumInt(s) == IF s = <<>> THEN 0 ELSE Head(s) + SumInt(Tail(s))

(* np.sum(Ptrig, axis=0) *)
ColumnSums(P) == [k \in 1..Ag.n |-> SumInt([s \in 1..nst |-> P[s][k]])]

(* Pdet without the comparison: the number of stations that triggered *)
PdetCount(P) == ColumnSums(P)

(* Pdet requiring every station to trigger *)
PdetAll(P) == [k \in 1..Ag.n |-> IF ColumnSums(P)[k] = nst THEN 1 ELSE 0]

(* Pdet = np.sum(Ptrig, axis=0) > 0, as 0/1 *)
Pdet(P) == [k \in 1..Ag.n |-> IF ColumnSums(P)[k] > 0 THEN 1 ELSE 0]

(* x / (N * n_stations): a scalar for an integer N, elementwise for an     *)
(* array N                                                                 *)
DivByN(r) ==
    IF N.kind = "int"
    THEN Scalar(RDivInt(r, N.v[1] * nst))
    ELSE ArrayOf([j \in 1..Len(N.v) |-> RDivInt(r, N.v[j] * nst)])

(* geometric = (Ag.area * np.sum(Ag.dot)) / (N * n_stations) *)
Geometric == DivByN(RInt(Ag.area * SumInt(Ag.dot)))

Unmasked == Indices([k \in 1..Ag.n |-> ~Pexit[k].m], 1)

(* pexit = np.mean(Pexit): the mean of the unmasked entries, the masked    *)
(* constant when every entry is masked                                     *)
PexitMean ==
    IF Unmasked = <<>> THEN MaskedScalar
    ELSE Scalar(RDivInt(RSum([j \in 1..Len(Unmasked) |-> Pexit[Unmasked[j]].v]),
                        Len(Unmasked)))

(* pdet = np.mean(Pdet) *)
PdetMean(D) == Scalar(Rat(SumInt(D), Ag.n))

(* effective_area = np.sum(Ag.area * Ag.dot * Pexit * Pdet) / (N * n_stations): *)
(* the masked sum runs over the unmasked entries and is the masked         *)
(* constant when there is none                                             *)
EffectiveArea(D) ==
    IF Unmasked = <<>>
    THEN IF N.kind = "int" THEN MaskedScalar
         ELSE ArrayOf([j \in 1..Len(N.v) |-> RInt(0)])
    ELSE DivByN(RSum([j \in 1..Len(Unmasked) |->
                        RMul(RInt(Ag.area * Ag.dot[Unmasked[j]] * D[Unmasked[j]]),
                             Pexit[Unmasked[j]].v)]))

(* lines 188-198 *)
Aggregate ==
    /\ pc = "loop"
    /\ evaluated = 1..nst
    /\ ret' \in Pack(<<Geometric, PexitMean, PdetMean(Pdet(Ptrig)),
                       EffectiveArea(Pdet(Ptrig))>>)
    /\ pc' = "done"
    /\ UNCHANGED <<N, nst, Ag, Pexit, calls, Ptrig, evaluated, loc, vargs, seen,
                   allAbove, world>>
    /\ UNCHANGED tauvars

----------------------------------------------------------------------------
(* Spec: calculate over the trigger/horizon geometry, stations in index    *)
(* order                                                                   *)

Init == InitOn(NTrig)

GeometricArea == GeometricAreaOn(DotTrig, NoWorld)

Lookup == LookupOn(PexitTrig)

StationLoop == StationIter(NextStation, [1..Ag.n -> GeoTrig])

Next ==
    \/ GeometricArea
    \/ EmptyBatch
    \/ Lookup
    \/ StationLoop
    \/ Aggregate

Spec == Init /\ [][Next]_vars

(* SpecAgg: calculate over weights, masked exit probabilities and the two  *)
(* forms of N                                                              *)

InitAgg == InitOn(NAgg)

GeometricAreaAgg == GeometricAreaOn(DotAgg, NoWorld)

LookupAgg == LookupOn(PexitAgg)

StationLoopAgg == StationIter(NextStation, [1..Ag.n -> GeoAgg])

NextAgg ==
    \/ GeometricAreaAgg
    \/ EmptyBatch
    \/ LookupAgg
    \/ StationLoopAgg
    \/ Aggregate

SpecAgg == InitAgg /\ [][NextAgg]_vars

(* SpecOrder: the per-station answers of the collaborators are fixed when  *)
(* the batch is made, and the stations are evaluated in any order          *)

GeometricAreaOrder == GeometricAreaOn(DotTrig, Worlds)

StationAnyOrder == \E s \in 1..nst : StationIter(s, {world[s]})

NextOrder ==
    \/ GeometricAreaOrder
    \/ EmptyBatch
    \/ Lookup
    \/ StationAnyOrder
    \/ Aggregate

SpecOrder == Init /\ [][NextOrder]_vars

----------------------------------------------------------------------------
(* tauola: the decay table and the samplers *)

(* ShowerType *)
Hadronic == 0

Electromagnetic == 1

(* a row of the decay file; only the hadron and electron columns are read *)
Row(h, e) == [hadron |-> h, electron |-> e]

RowDomain ==
    {Row(RInt(0), RInt(0)),
     Row(Rat(1, 4), RInt(0)), Row(RInt(1), RInt(0)),
     Row(RInt(0), Rat(1, 2)), Row(RInt(0), Rat(3, 4))}

Positive(r) == RLt(RInt(0), r)

(* col[col > 0.0] *)
NonZero(col) == SelectSeq(col, Positive)

Electrons == [j \in 1..Len(decays) |-> decays[j].electron]

Hadrons == [j \in 1..Len(decays) |-> decays[j].hadron]

Nem == Len(NonZero(Electrons))

Nhad == Len(NonZero(Hadrons))

Nshowers ==
    Cardinality({j \in 1..Len(decays) :
                    Positive(decays[j].electron) \/ Positive(decays[j].hadron)})

RECURSIVE Insert(_, _)
Insert(x, s) ==
    IF s = <<>> THEN <<x>>
    ELSE IF RLe(x, Head(s)) THEN <<x>> \o s
    ELSE <<Head(s)>> \o Insert(x, Tail(s))

(* the nonzero fractions left in file order *)
Unsorted(s) == s

RECURSIVE Sort(_)
(* np.sort: ascending *)
Sort(s) == IF s = <<>> THEN <<>> ELSE Insert(Head(s), Sort(Tail(s)))

Eem == Sort(NonZero(Electrons))

Ehad == Sort(NonZero(Hadrons))

(* np.interp(x, np.arange(K), fp) with K = Len(fp): fp[j + 1] is the value *)
(* at abscissa j; x below 0 or above K - 1 takes the end value             *)
Interp(x, fp) ==
    LET K == Len(fp)
        j == RFloor(x)
    IN  IF RLe(x, RInt(0)) THEN fp[1]
        ELSE IF RLe(RInt(K - 1), x) THEN fp[K]
        ELSE RAdd(fp[j + 1], RMul(RSub(x, RInt(j)), RSub(fp[j + 2], fp[j + 1])))

(* Uniform draws in [0, 1): the midpoints of the Nshowers cells of width   *)
(* 1 / Nshowers.  The comparison u > Pem is constant inside each cell, so  *)
(* the share of midpoints with a property of ShowerTypeOf is the           *)
(* probability of that property.                                           *)
UGrid == {Rat(2 * j + 1, 2 * Nshowers) : j \in 0..(Nshowers - 1)}

(* stypes[u > Pem] = ShowerType.Electromagnetic, Pem = Nem / Nshowers *)
ShowerTypeOf(u) ==
    IF RLt(Rat(Nem, Nshowers), u) THEN Electromagnetic ELSE Hadronic

(* one element of sample_energy_fraction *)
EnergyFractionOf(stype, u) ==
    IF stype = Electromagnetic THEN Interp(RMul(RInt(Nem), u), Eem)
    ELSE IF stype = Hadronic THEN Interp(RMul(RInt(Nhad), u), Ehad)
    ELSE RInt(0)

(* the table as loaded on import: both kinds of shower occur in it *)
InitTauola ==
    /\ \E r \in 1..MaxRows : decays \in [1..r -> RowDomain]
    /\ Nem > 0
    /\ Nhad > 0
    /\ tpc = "idle"
    /\ stypes = <<>>
    /\ fractions = <<>>
    /\ tin = <<>>
    /\ tu = <<>>
    /\ pc = "start"
    /\ nst = 1
    /\ N = NInt(1)
    /\ Ag = [n |-> 0, dot |-> <<>>, area |-> 0]
    /\ Pexit = <<>>
    /\ calls = {}
    /\ Ptrig = <<>>
    /\ evaluated = {}
    /\ loc = NoLoc
    /\ vargs = <<>>
    /\ seen = {}
    /\ allAbove = TRUE
    /\ world = <<>>
    /\ ret = NoRet

(* sample_shower_type(N) *)
SampleShowerType ==
    /\ tpc = "idle"
    /\ \E count \in 0..MaxCount :
         \E u \in [1..count -> UGrid] :
            /\ tin' = <<count>>
            /\ tu' = u
            /\ stypes' = [k \in 1..count |-> ShowerTypeOf(u[k])]
    /\ tpc' = "sample_shower_type"
    /\ UNCHANGED <<decays, fractions>>
    /\ UNCHANGED calcvars

(* sample_energy_fraction(stypes) *)
SampleEnergyFraction ==
    /\ tpc = "idle"
    /\ \E count \in 0..MaxCount :
         \E st \in [1..count -> {Hadronic, Electromagnetic}], u \in [1..count -> UGrid] :
            /\ tin' = st
            /\ tu' = u
            /\ fractions' = [k \in 1..count |-> EnergyFractionOf(st[k], u[k])]
    /\ tpc' = "sample_energy_fraction"
    /\ UNCHANGED <<decays, stypes>>
    /\ UNCHANGED calcvars

NextTauola ==
    \/ SampleShowerType
    \/ SampleEnergyFraction

SpecTauola == InitTauola /\ [][NextTauola]_vars

----------------------------------------------------------------------------
(* Properties *)

(* calculate has finished; it returned a vector *)
Finished == pc = "done"

Returned == Finished /\ ret.kind = "vector"

IterationRan == loc.s # 0

(* C1: for the station just evaluated, an in-sight trial whose decay point *)
(* is farther than the horizon distance and below the horizon angle has    *)
(* trigger indicator 0 in Ptrig, whatever its SNR.                         *)
C1_InvisibleNeverTriggers ==
    IterationRan =>
        \A j \in 1..Len(loc.idx) :
            (loc.dist[j] > loc.hd /\ Elev(loc.theta[j]) < loc.ha)
                => Ptrig[loc.s][loc.idx[j]] = 0

(* C2: for the station just evaluated, an in-sight trial at strictly       *)
(* positive elevation has trigger indicator 0 in Ptrig, whatever its SNR;  *)
(* with one station and one such trial the returned pdet is 0.             *)
C2_AboveHorizontalNeverTriggers ==
    /\ IterationRan =>
          \A j \in 1..Len(loc.idx) :
              Elev(loc.theta[j]) > 0 => Ptrig[loc.s][loc.idx[j]] = 0
    /\ (Returned /\ nst = 1 /\ Ag.n = 1 /\ Len(loc.idx) = 1 /\ Elev(loc.theta[1]) > 0)
          => ret.v[3] = Scalar(RInt(0))

ZeroVector ==
    [kind |-> "vector",
     v |-> <<Scalar(RInt(0)), Scalar(RInt(0)), Scalar(RInt(0)), Scalar(RInt(0))>>]

(* C3: an empty trial batch returns exactly [0, 0, 0, 0], and the exit     *)
(* lookup, the decay sampler, the noise floor and the voltage model were   *)
(* not called.                                                             *)
C3_EmptyBatchZero ==
    (Finished /\ Ag.n = 0) =>
        /\ ret = ZeroVector
        /\ calls \cap {"tauexit", "sample_range", "sample_shower_energies",
                       "Vrms", "voltage"} = {}

C3_Witness == Returned /\ Ag.n = 0 /\ N.kind = "array" /\ nst = 2

InUnit(r) == RLe(RInt(0), r) /\ RLe(r, RInt(1))

NonNeg(r) == RLe(RInt(0), r)

C5_FourScalars ==
    Finished =>
        /\ ret.kind = "vector"
        /\ Len(ret.v) = 4
        /\ \A j \in 1..Len(ret.v) : ret.v[j].shape = "scalar"

(* C6: sample_shower_type(count) returns count labels, each Hadronic or    *)
(* Electromagnetic, and the share of uniform draws mapped to               *)
(* Electromagnetic is Nem / Nshowers.                                      *)
C6_EmShare ==
    tpc = "sample_shower_type" =>
        /\ Len(stypes) = tin[1]
        /\ \A k \in 1..Len(stypes) : stypes[k] \in {Hadronic, Electromagnetic}
        /\ Cardinality({u \in UGrid : ShowerTypeOf(u) = Electromagnetic}) * Nshowers
              = Nem * Cardinality(UGrid)

RECURSIVE MaxOf(_)
MaxOf(s) ==
    IF Len(s) = 1 THEN s[1]
    ELSE LET m == MaxOf(Tail(s)) IN IF RLe(m, Head(s)) THEN Head(s) ELSE m

(* the largest nonzero reference fraction of a category, read off the table *)
MaxFraction(stype) ==
    IF stype = Electromagnetic THEN MaxOf(Electrons) ELSE MaxOf(Hadrons)

CategoryCount(stype) == IF stype = Electromagnetic THEN Nem ELSE Nhad

(* C7: sample_energy_fraction returns one value per input label; each is   *)
(* > 0 and at most the largest reference fraction of its category, and an  *)
(* abscissa u * K above K - 1 gives exactly that largest fraction.         *)
C7_FractionRange ==
    tpc = "sample_energy_fraction" =>
        /\ Len(fractions) = Len(tin)
        /\ \A k \in 1..Len(fractions) :
              /\ RLt(RInt(0), fractions[k])
              /\ RLe(fractions[k], MaxFraction(tin[k]))
              /\ RLt(RInt(CategoryCount(tin[k]) - 1),
                     RMul(RInt(CategoryCount(tin[k])), tu[k]))
                    => fractions[k] = MaxFraction(tin[k])

C7_Witness ==
    /\ tpc = "sample_energy_fraction"
    /\ Len(fractions) = 2
    /\ tin = <<Electromagnetic, Electromagnetic>>
    /\ Nem = 2
    /\ decays[1].electron = Rat(3, 4)
    /\ fractions[1] = Rat(3, 4)
    /\ RLt(Rat(1, 2), fractions[2])
    /\ RLt(fractions[2], Rat(3, 4))

WorldTrigger(s, k) ==
    IF world[s][k].gv <= maxview /\ world[s][k].snr > trigger_SNR THEN 1 ELSE 0

WorldDetected == [k \in 1..Ag.n |-> IF \E s \in 1..nst : WorldTrigger(s, k) = 1 THEN 1 ELSE 0]

(* C9: in whatever order the stations are evaluated, the row of an         *)
(* unevaluated station is all 0, the row of an evaluated station holds     *)
(* that station's own trigger indicators (0 where out of view), and on     *)
(* return a trial counts as detected iff some station's indicator is 1:    *)
(* the returned vector is determined by the per-station inputs alone.      *)
C9_OrderIndependent ==
    /\ pc \in {"loop", "done"} =>
          \A s \in 1..nst, k \in 1..Ag.n :
              Ptrig[s][k] = IF s \in evaluated THEN WorldTrigger(s, k) ELSE 0
    /\ (Finished /\ Ag.n > 0) =>
          /\ ret.kind = "vector"
          /\ ret.v[3] = Scalar(Rat(SumInt(WorldDetected), Ag.n))
          /\ ret.v[3] = Scalar(Rat(Cardinality({k \in 1..Ag.n :
                                       \E s \in 1..nst : Ptrig[s][k] = 1}), Ag.n))
          /\ ret.v[4] = EffectiveArea(WorldDetected)

C9_Witness ==
    /\ Returned
    /\ nst = 2
    /\ Ag.n = 2
    /\ loc.s = 1
    /\ Ptrig[2] = <<1, 0>>
    /\ Ptrig[1] = <<0, 0>>
    /\ world[1][2] = VisibleLow

(* C10: every per-trial argument handed to the voltage model is restricted *)
(* to the station's in-sight trials: element j of each belongs to the j-th *)
(* in-sight trial.                                                         *)
C10_ArgsRestricted ==
    IterationRan => \A a \in DOMAIN vargs : vargs[a] = loc.idx

====
